---- MODULE Spec2Model ----
(***************************************************************************)
(* Model of the api-assistant repository:                                  *)
(*   - src/Assistant.py : Flask chatbot (ClaudeChatbot orchestrator, the   *)
(*     /api/chat and /api/clear routes, the module-level global chatbot);  *)
(*   - src/weatherv2.py : the three-city weather report script.            *)
(* A text (a Python str) is a sequence of tokens; the whitespace tokens    *)
(* are " ", "\t" and "\n".  A turn is [role, content].                     *)
(***************************************************************************)
EXTENDS Integers, Sequences, FiniteSets, TLC

VARIABLES
    chatbot,          \* the module-level global: id of the current ClaudeChatbot instance
    hist,             \* hist[i]: conversation_history of instance i
    pc,               \* pc[c]: position of the request handler thread of client c
    self,             \* self[c]: the instance process_message was bound to
    req,              \* req[c]: body of the request client c sent last
    user_message,     \* locals of chat() / process_message(), per handler
    claude_response,
    api_data,
    reply,            \* the value process_message returns
    resp,             \* resp[c]: the HTTP response client c received last
    turn,             \* per handled user turn: what was observed (history before, model calls, fetches, exceptions)
    nreq,             \* number of requests received so far
    okSince,          \* number of 200 chat responses since the current instance was created
    cleared,          \* a POST /api/clear has succeeded
    conc,             \* whether requests are handled concurrently (threaded server)
    wpc, wi, wdata, wfetched, wout   \* the weather script (src/weatherv2.py)

chatVars == <<chatbot, hist, pc, self, req, user_message, claude_response, api_data,
              reply, resp, turn, nreq, okSince, cleared, conc>>
weatherVars == <<wpc, wi, wdata, wfetched, wout>>
vars == <<chatbot, hist, pc, self, req, user_message, claude_response, api_data,
          reply, resp, turn, nreq, okSince, cleared, conc, wpc, wi, wdata, wfetched, wout>>

----------------------------------------------------------------------------
(* Bounds *)

\* requests (chat and clear) received in one run of the sequential server
MaxRequests == 3
\* requests received in one run of the concurrent server
MaxConcRequests == 2
\* longest hourly series a weather response carries
MaxHours == 25

----------------------------------------------------------------------------
(* Texts *)

Clients == {"c1", "c2"}
Ids == {0, 1, 2}

IsSpace(ch) == ch \in {" ", "\t", "\n"}

RECURSIVE LStrip(_)
LStrip(s) == IF s = <<>> THEN s
             ELSE IF IsSpace(Head(s)) THEN LStrip(Tail(s)) ELSE s

RECURSIVE RStrip(_)
RStrip(s) == IF s = <<>> THEN s
             ELSE IF IsSpace(s[Len(s)]) THEN RStrip(SubSeq(s, 1, Len(s) - 1)) ELSE s

\* no stripping at all
StripNothing(s) == s

\* str.strip()
Strip(s) == RStrip(LStrip(s))

\* str(e) of the exception in place of the fixed text
ErrTextOfException == <<"Connection error.">>

\* line 147: the fixed reply of call_claude_api when anything raises
ErrText == <<"Sorry, there was an error processing your request.">>

User(m) == [role |-> "user", content |-> m]
Assistant(m) == [role |-> "assistant", content |-> m]

----------------------------------------------------------------------------
(* Request bodies of POST /api/chat: what request.get_json() yields.       *)
(* isObj: the body is a JSON object; has: it has a "message" key;          *)
(* isStr: the value of that key is a string.                               *)

Body(isObj, has, isStr, m) == [isObj |-> isObj, has |-> has, isStr |-> isStr, message |-> m]

Bodies ==
    { Body(FALSE, FALSE, FALSE, <<>>),          \* no JSON object (get_json() is None)
      Body(TRUE, TRUE, FALSE, <<>>),            \* {"message": null}
      Body(TRUE, FALSE, FALSE, <<>>),           \* {}
      Body(TRUE, TRUE, TRUE, <<>>),             \* {"message": ""}
      Body(TRUE, TRUE, TRUE, <<" ", "\t">>),    \* {"message": " \t"}
      Body(TRUE, TRUE, TRUE, <<"a">>),
      Body(TRUE, TRUE, TRUE, <<"\n", "b", " ">>) }

NoBody == Body(FALSE, FALSE, FALSE, <<>>)

\* data.get('message', '')
GetMessage(b) == IF b.has THEN b.message ELSE <<>>

\* lines 221-222 raise (AttributeError) when data is None or the message is no string
BodyRaises(b) == ~b.isObj \/ (b.has /\ ~b.isStr)

----------------------------------------------------------------------------
(* Replies of the hosted model and json.loads on them.                     *)

NoParams == [school_uuid |-> <<>>, room_uuid |-> <<>>, sensor_uuid |-> <<>>]

\* a parsed JSON value, as far as process_message looks at it.
\* params.kind: "absent" (no "params" key), "map" (a JSON object), "null".
\* a key of params maps to <<>> when missing and to <<v>> when present.
Parsed(valid, isDict, needsAPI, hasType, apiType, pkind, params) ==
    [valid |-> valid, isDict |-> isDict, needsAPI |-> needsAPI, hasType |-> hasType,
     apiType |-> apiType, pkind |-> pkind, params |-> params]

NotJson == Parsed(FALSE, FALSE, FALSE, FALSE, "", "absent", NoParams)
Directive(apiType, pkind, params) == Parsed(TRUE, TRUE, TRUE, TRUE, apiType, pkind, params)

J_List      == "[1, 2]"
J_NoApi     == "{\"needsAPI\": false}"
J_NoType    == "{\"needsAPI\": true}"
J_Schools   == "{\"needsAPI\": true, \"apiType\": \"schools\"}"
J_RoomsNo   == "{\"needsAPI\": true, \"apiType\": \"rooms\", \"params\": {}}"
J_RoomsEmp  == "{\"needsAPI\": true, \"apiType\": \"rooms\", \"params\": {\"school_uuid\": \"\"}}"
J_Rooms     == "{\"needsAPI\": true, \"apiType\": \"rooms\", \"params\": {\"school_uuid\": \"s1\"}}"
J_RoomsNull == "{\"needsAPI\": true, \"apiType\": \"rooms\", \"params\": null}"
J_SensorsNo == "{\"needsAPI\": true, \"apiType\": \"sensors\", \"params\": {\"school_uuid\": \"s1\"}}"
J_Sensors   == "{\"needsAPI\": true, \"apiType\": \"sensors\", \"params\": {\"room_uuid\": \"r1\"}}"
J_ValuesNo  == "{\"needsAPI\": true, \"apiType\": \"values\"}"
J_Values    == "{\"needsAPI\": true, \"apiType\": \"values\", \"params\": {\"sensor_uuid\": \"v1\"}}"
J_Unknown   == "{\"needsAPI\": true, \"apiType\": \"weather\", \"params\": {}}"

JsonTexts == {J_List, J_NoApi, J_NoType, J_Schools, J_RoomsNo, J_RoomsEmp, J_Rooms,
              J_RoomsNull, J_SensorsNo, J_Sensors, J_ValuesNo, J_Values, J_Unknown}

\* json.loads(text): text is a stripped text
JsonLoads(text) ==
    IF Len(text) # 1 \/ text[1] \notin JsonTexts THEN NotJson
    ELSE CASE text[1] = J_List      -> Parsed(TRUE, FALSE, FALSE, FALSE, "", "absent", NoParams)
           [] text[1] = J_NoApi     -> Parsed(TRUE, TRUE, FALSE, FALSE, "", "absent", NoParams)
           [] text[1] = J_NoType    -> Parsed(TRUE, TRUE, TRUE, FALSE, "", "absent", NoParams)
           [] text[1] = J_Schools   -> Directive("schools", "absent", NoParams)
           [] text[1] = J_RoomsNo   -> Directive("rooms", "map", NoParams)
           [] text[1] = J_RoomsEmp  -> Directive("rooms", "map", [NoParams EXCEPT !.school_uuid = <<"">>])
           [] text[1] = J_Rooms     -> Directive("rooms", "map", [NoParams EXCEPT !.school_uuid = <<"s1">>])
           [] text[1] = J_RoomsNull -> Directive("rooms", "null", NoParams)
           [] text[1] = J_SensorsNo -> Directive("sensors", "map", [NoParams EXCEPT !.school_uuid = <<"s1">>])
           [] text[1] = J_Sensors   -> Directive("sensors", "map", [NoParams EXCEPT !.room_uuid = <<"r1">>])
           [] text[1] = J_ValuesNo  -> Directive("values", "absent", NoParams)
           [] text[1] = J_Values    -> Directive("values", "map", [NoParams EXCEPT !.sensor_uuid = <<"v1">>])
           [] text[1] = J_Unknown   -> Directive("weather", "map", NoParams)

\* what the model may answer to the intent request (response.content[0].text)
Phase1Replies ==
    { <<"Hello, how can I help?", "\n">> }
    \cup { <<j>> : j \in JsonTexts }
    \cup { <<"\n", J_Schools, " ">> }

\* what the model may answer to the formatting request
Phase2Replies == { <<"| name | value |">> }

----------------------------------------------------------------------------
(* fetch_external_data *)

Data(op, arg) == [isError |-> FALSE, error |-> <<>>, op |-> op, arg |-> arg]
ErrorData(e) == [isError |-> TRUE, error |-> e, op |-> "", arg |-> ""]
NoData == Data("", "")

\* Python truthiness of params.get(key): None and "" are falsy
Falsy(opt) == opt = <<>> \/ opt = <<"">>

RequiredKey(api_type) ==
    CASE api_type = "rooms" -> "school_uuid"
      [] api_type = "sensors" -> "room_uuid"
      [] api_type = "values" -> "sensor_uuid"

MissingUuidError(api_type) ==
    CASE api_type = "rooms" -> <<"School UUID required for fetching rooms">>
      [] api_type = "sensors" -> <<"Room UUID required for fetching sensors">>
      [] api_type = "values" -> <<"Sensor UUID required for fetching values">>

\* fetch_external_data without the presence checks on the UUID
FetchPlanUnchecked(api_type, pkind, params) ==
    IF api_type = "schools" THEN [invoke |-> TRUE, op |-> "schools", arg |-> "", data |-> NoData]
    ELSE IF api_type \in {"rooms", "sensors", "values"}
    THEN [invoke |-> TRUE, op |-> api_type, arg |-> "", data |-> NoData]
    ELSE [invoke |-> FALSE, op |-> "", arg |-> "",
          data |-> ErrorData(<<"Unknown API type", api_type>>)]

\* fetch_external_data up to the Resource Client call: either the call to make
\* (invoke) or the object returned without one (data)
FetchPlan(api_type, pkind, params) ==
    IF api_type = "schools"
    THEN [invoke |-> TRUE, op |-> "schools", arg |-> "", data |-> NoData]
    ELSE IF api_type \in {"rooms", "sensors", "values"}
    THEN IF pkind = "null"
         \* None.get raises AttributeError inside the try
         THEN [invoke |-> FALSE, op |-> "", arg |-> "",
               data |-> ErrorData(<<"Failed to fetch", api_type, "AttributeError">>)]
         ELSE IF Falsy(params[RequiredKey(api_type)])
         THEN [invoke |-> FALSE, op |-> "", arg |-> "",
               data |-> ErrorData(MissingUuidError(api_type))]
         ELSE [invoke |-> TRUE, op |-> api_type,
               arg |-> params[RequiredKey(api_type)][1], data |-> NoData]
    ELSE [invoke |-> FALSE, op |-> "", arg |-> "",
          data |-> ErrorData(<<"Unknown API type", api_type>>)]

----------------------------------------------------------------------------
(* call_claude_api: the message list *)

HistoryWindow == 4

\* the whole history, no window
BuildMessagesAll(history, msg) == Append(history, User(msg))

BuildMessages(history, msg) ==
    LET recent_history ==
            IF Len(history) > HistoryWindow
            THEN SubSeq(history, Len(history) - HistoryWindow + 1, Len(history))
            ELSE history
    IN Append(recent_history, User(msg))

Call(phase, messages, data, failed, text) ==
    [phase |-> phase, messages |-> messages, data |-> data, failed |-> failed, reply |-> text]

----------------------------------------------------------------------------
(* process_message: what is appended to the history *)

\* the stripped text is stored
AfterDirectStripped(history, response) == Append(history, Assistant(Strip(response)))

\* line 180: the phase-1 text becomes the assistant turn
AfterDirect(history, response) == Append(history, Assistant(response))

\* both the directive and the formatted text are stored
AfterFormatBoth(history, response, final) ==
    Append(Append(history, Assistant(response)), Assistant(final))

\* line 168: the phase-2 text becomes the assistant turn
AfterFormat(history, response, final) == Append(history, Assistant(final))

\* the new instance takes over the old history
KeptHistory == hist[chatbot]

\* line 99: the history of a new ClaudeChatbot
NewHistory == <<>>

\* line 226: the conversation list of the 200 response
ResponseConversation(history) == history

----------------------------------------------------------------------------
(* State *)

NoResp == [status |-> 0, response |-> <<>>, conversation |-> <<>>, error |-> ""]
Resp(status, response, conversation, error) ==
    [status |-> status, response |-> response, conversation |-> conversation, error |-> error]

NoTurn == [before |-> <<>>, calls |-> <<>>, fetches |-> <<>>, raised |-> {}]

Budget == IF conc THEN MaxConcRequests ELSE MaxRequests

Busy(c) == pc[c] # "idle"

\* instance i is referenced by a handler other than c that is under way
Held(i, c) == \E d \in Clients \ {c} : Busy(d) /\ self[d] = i

InitChat(concurrent) ==
    /\ chatbot = 0
    /\ hist = [i \in Ids |-> <<>>]
    /\ pc = [c \in Clients |-> "idle"]
    /\ self = [c \in Clients |-> 0]
    /\ req = [c \in Clients |-> NoBody]
    /\ user_message = [c \in Clients |-> <<>>]
    /\ claude_response = [c \in Clients |-> <<>>]
    /\ api_data = [c \in Clients |-> NoData]
    /\ reply = [c \in Clients |-> <<>>]
    /\ resp = [c \in Clients |-> NoResp]
    /\ turn = [c \in Clients |-> NoTurn]
    /\ nreq = 0
    /\ okSince = 0
    /\ cleared = FALSE
    /\ conc = concurrent

InitWeather ==
    /\ wpc = "fetch"
    /\ wi = 1
    /\ wdata = <<>>
    /\ wfetched = <<>>
    /\ wout = <<>>

Init == InitChat(FALSE) /\ InitWeather
InitConc == InitChat(TRUE) /\ InitWeather

\* a request can be taken up: the sequential server handles one at a time
CanStart(c) ==
    /\ pc[c] = "idle"
    /\ nreq < Budget
    /\ conc \/ (c = "c1" /\ \A d \in Clients : pc[d] = "idle")

\* the locals of a handler that has returned
DropLocals(c) ==
    /\ user_message' = [user_message EXCEPT ![c] = <<>>]
    /\ claude_response' = [claude_response EXCEPT ![c] = <<>>]
    /\ api_data' = [api_data EXCEPT ![c] = NoData]
    /\ reply' = [reply EXCEPT ![c] = <<>>]
    /\ turn' = [turn EXCEPT ![c] = NoTurn]

----------------------------------------------------------------------------
(* POST /api/chat *)

\* lines 221-222 raise; line 229 answers 500
ChatRaise(c, b) ==
    /\ CanStart(c)
    /\ BodyRaises(b)
    /\ req' = [req EXCEPT ![c] = b]
    /\ resp' = [resp EXCEPT ![c] = Resp(500, <<>>, <<>>, "Internal error")]
    /\ nreq' = nreq + 1
    /\ DropLocals(c)
    /\ UNCHANGED <<chatbot, hist, pc, self, okSince, cleared, conc, weatherVars>>

\* lines 223-224: the stripped message is empty
ChatEmpty(c, b) ==
    /\ CanStart(c)
    /\ ~BodyRaises(b)
    /\ Strip(GetMessage(b)) = <<>>
    /\ req' = [req EXCEPT ![c] = b]
    /\ resp' = [resp EXCEPT ![c] = Resp(400, <<>>, <<>>, "Message required")]
    /\ nreq' = nreq + 1
    /\ DropLocals(c)
    /\ UNCHANGED <<chatbot, hist, pc, self, okSince, cleared, conc, weatherVars>>

\* line 225 binds chatbot.process_message; line 151 appends the user turn
ChatAccept(c, b) ==
    /\ CanStart(c)
    /\ ~BodyRaises(b)
    /\ Strip(GetMessage(b)) # <<>>
    /\ req' = [req EXCEPT ![c] = b]
    /\ resp' = [resp EXCEPT ![c] = NoResp]
    /\ nreq' = nreq + 1
    /\ self' = [self EXCEPT ![c] = chatbot]
    /\ user_message' = [user_message EXCEPT ![c] = Strip(GetMessage(b))]
    /\ hist' = [hist EXCEPT ![chatbot] = Append(@, User(Strip(GetMessage(b))))]
    /\ turn' = [turn EXCEPT ![c] = [NoTurn EXCEPT !.before = hist[chatbot]]]
    /\ claude_response' = [claude_response EXCEPT ![c] = <<>>]
    /\ api_data' = [api_data EXCEPT ![c] = NoData]
    /\ reply' = [reply EXCEPT ![c] = <<>>]
    /\ pc' = [pc EXCEPT ![c] = "intent"]
    /\ UNCHANGED <<chatbot, okSince, cleared, conc, weatherVars>>

\* line 154, call_claude_api(user_message): the model answers t
IntentReply(c, t) ==
    /\ pc[c] = "intent"
    /\ claude_response' = [claude_response EXCEPT ![c] = t]
    /\ turn' = [turn EXCEPT ![c].calls =
                   Append(@, Call("intent", BuildMessages(hist[self[c]], user_message[c]),
                                  NoData, FALSE, t))]
    /\ pc' = [pc EXCEPT ![c] = "dispatch"]
    /\ UNCHANGED <<chatbot, hist, self, req, user_message, api_data, reply, resp,
                   nreq, okSince, cleared, conc, weatherVars>>

\* line 154: the request raises, lines 145-147 return the fixed text
IntentFail(c) ==
    /\ pc[c] = "intent"
    /\ claude_response' = [claude_response EXCEPT ![c] = ErrText]
    /\ turn' = [turn EXCEPT ![c].calls =
                   Append(@, Call("intent", BuildMessages(hist[self[c]], user_message[c]),
                                  NoData, TRUE, ErrText)),
                            ![c].raised = @ \cup {"ModelError"}]
    /\ pc' = [pc EXCEPT ![c] = "dispatch"]
    /\ UNCHANGED <<chatbot, hist, self, req, user_message, api_data, reply, resp,
                   nreq, okSince, cleared, conc, weatherVars>>

\* line 158
ParsedResponse(c) == JsonLoads(Strip(claude_response[c]))

\* lines 158-162 reach the call of fetch_external_data
IsDirective(p) == p.valid /\ p.isDict /\ p.needsAPI /\ p.hasType

\* the exception lines 158-162 raise, if any
ParseException(p) ==
    IF ~p.valid THEN {"JSONDecodeError"}
    ELSE IF ~p.isDict THEN {"AttributeError"}
    ELSE IF p.needsAPI /\ ~p.hasType THEN {"KeyError"}
    ELSE {}

\* lines 170-181: no directive, the phase-1 text is the answer
DirectAnswer(c) ==
    /\ pc[c] = "dispatch"
    /\ ~IsDirective(ParsedResponse(c))
    /\ hist' = [hist EXCEPT ![self[c]] = AfterDirect(@, claude_response[c])]
    /\ reply' = [reply EXCEPT ![c] = claude_response[c]]
    /\ turn' = [turn EXCEPT ![c].raised = @ \cup ParseException(ParsedResponse(c))]
    /\ pc' = [pc EXCEPT ![c] = "respond"]
    /\ UNCHANGED <<chatbot, self, req, user_message, claude_response, api_data, resp,
                   nreq, okSince, cleared, conc, weatherVars>>

Plan(c) == FetchPlan(ParsedResponse(c).apiType, ParsedResponse(c).pkind,
                     ParsedResponse(c).params)

\* lines 161-164: fetch_external_data returns without a Resource Client call
FetchLocal(c) ==
    /\ pc[c] = "dispatch"
    /\ IsDirective(ParsedResponse(c))
    /\ ~Plan(c).invoke
    /\ api_data' = [api_data EXCEPT ![c] = Plan(c).data]
    /\ turn' = [turn EXCEPT ![c].raised =
                   @ \cup (IF Plan(c).data.error = MissingUuidError("rooms")
                              \/ Plan(c).data.error = MissingUuidError("sensors")
                              \/ Plan(c).data.error = MissingUuidError("values")
                              \/ Plan(c).data.error[1] = "Unknown API type"
                           THEN {} ELSE {"AttributeError"})]
    /\ pc' = [pc EXCEPT ![c] = "format"]
    /\ UNCHANGED <<chatbot, hist, self, req, user_message, claude_response, reply, resp,
                   nreq, okSince, cleared, conc, weatherVars>>

\* lines 187, 192, 197, 202: the Resource Client call returns the remote JSON
FetchOk(c) ==
    /\ pc[c] = "dispatch"
    /\ IsDirective(ParsedResponse(c))
    /\ Plan(c).invoke
    /\ api_data' = [api_data EXCEPT ![c] = Data(Plan(c).op, Plan(c).arg)]
    /\ turn' = [turn EXCEPT ![c].fetches = Append(@, <<Plan(c).op, Plan(c).arg>>)]
    /\ pc' = [pc EXCEPT ![c] = "format"]
    /\ UNCHANGED <<chatbot, hist, self, req, user_message, claude_response, reply, resp,
                   nreq, okSince, cleared, conc, weatherVars>>

\* lines 205-207: the Resource Client call raises
FetchRaise(c) ==
    /\ pc[c] = "dispatch"
    /\ IsDirective(ParsedResponse(c))
    /\ Plan(c).invoke
    /\ api_data' = [api_data EXCEPT ![c] =
                       ErrorData(<<"Failed to fetch", ParsedResponse(c).apiType, "HTTPError">>)]
    /\ turn' = [turn EXCEPT ![c].fetches = Append(@, <<Plan(c).op, Plan(c).arg>>),
                            ![c].raised = @ \cup {"HTTPError"}]
    /\ pc' = [pc EXCEPT ![c] = "format"]
    /\ UNCHANGED <<chatbot, hist, self, req, user_message, claude_response, reply, resp,
                   nreq, okSince, cleared, conc, weatherVars>>

\* line 167, call_claude_api(user_message, api_data): the model answers t
FormatReply(c, t) ==
    /\ pc[c] = "format"
    /\ reply' = [reply EXCEPT ![c] = t]
    /\ turn' = [turn EXCEPT ![c].calls =
                   Append(@, Call("format", BuildMessages(hist[self[c]], user_message[c]),
                                  api_data[c], FALSE, t))]
    /\ pc' = [pc EXCEPT ![c] = "append"]
    /\ UNCHANGED <<chatbot, hist, self, req, user_message, claude_response, api_data, resp,
                   nreq, okSince, cleared, conc, weatherVars>>

\* line 167: the request raises, lines 145-147 return the fixed text
FormatFail(c) ==
    /\ pc[c] = "format"
    /\ reply' = [reply EXCEPT ![c] = ErrText]
    /\ turn' = [turn EXCEPT ![c].calls =
                   Append(@, Call("format", BuildMessages(hist[self[c]], user_message[c]),
                                  api_data[c], TRUE, ErrText)),
                            ![c].raised = @ \cup {"ModelError"}]
    /\ pc' = [pc EXCEPT ![c] = "append"]
    /\ UNCHANGED <<chatbot, hist, self, req, user_message, claude_response, api_data, resp,
                   nreq, okSince, cleared, conc, weatherVars>>

\* lines 168-169
AppendFinal(c) ==
    /\ pc[c] = "append"
    /\ hist' = [hist EXCEPT ![self[c]] = AfterFormat(@, claude_response[c], reply[c])]
    /\ pc' = [pc EXCEPT ![c] = "respond"]
    /\ UNCHANGED <<chatbot, self, req, user_message, claude_response, api_data, reply, resp,
                   turn, nreq, okSince, cleared, conc, weatherVars>>

\* line 226: the response reads the history of the global chatbot as it is now;
\* an instance nothing refers to any more is gone
Respond(c) ==
    /\ pc[c] = "respond"
    /\ resp' = [resp EXCEPT ![c] =
                   Resp(200, reply[c], ResponseConversation(hist[chatbot]), "")]
    /\ hist' = [i \in Ids |-> IF i = chatbot \/ Held(i, c) THEN hist[i] ELSE <<>>]
    /\ pc' = [pc EXCEPT ![c] = "idle"]
    /\ okSince' = okSince + 1
    /\ DropLocals(c)
    /\ UNCHANGED <<chatbot, self, req, nreq, cleared, conc, weatherVars>>

----------------------------------------------------------------------------
(* POST /api/clear *)

FreeIds == {i \in Ids : ~Held(i, "")}
NewId == CHOOSE i \in FreeIds : \A j \in FreeIds : i <= j

\* lines 233-235: a new ClaudeChatbot replaces the global
ClearOk ==
    /\ nreq < Budget
    /\ conc \/ \A d \in Clients : pc[d] = "idle"
    /\ chatbot' = NewId
    /\ hist' = [i \in Ids |-> IF i = NewId THEN NewHistory
                              ELSE IF Held(i, "") THEN hist[i] ELSE <<>>]
    /\ okSince' = 0
    /\ cleared' = TRUE
    /\ nreq' = nreq + 1
    /\ UNCHANGED <<pc, self, req, user_message, claude_response, api_data, reply, resp,
                   turn, conc, weatherVars>>

\* line 234 raises in ExternalAPIClient() (line 78, get_access_token): the global stays
ClearFail ==
    /\ nreq < Budget
    /\ conc \/ \A d \in Clients : pc[d] = "idle"
    /\ nreq' = nreq + 1
    /\ UNCHANGED <<chatbot, hist, pc, self, req, user_message, claude_response, api_data,
                   reply, resp, turn, okSince, cleared, conc, weatherVars>>

Next ==
    \/ \E c \in Clients, b \in Bodies : ChatRaise(c, b)
    \/ \E c \in Clients, b \in Bodies : ChatEmpty(c, b)
    \/ \E c \in Clients, b \in Bodies : ChatAccept(c, b)
    \/ \E c \in Clients, t \in Phase1Replies : IntentReply(c, t)
    \/ \E c \in Clients : IntentFail(c)
    \/ \E c \in Clients : DirectAnswer(c)
    \/ \E c \in Clients : FetchLocal(c)
    \/ \E c \in Clients : FetchOk(c)
    \/ \E c \in Clients : FetchRaise(c)
    \/ \E c \in Clients, t \in Phase2Replies : FormatReply(c, t)
    \/ \E c \in Clients : FormatFail(c)
    \/ \E c \in Clients : AppendFinal(c)
    \/ \E c \in Clients : Respond(c)
    \/ ClearOk
    \/ ClearFail

\* requests handled one at a time
Spec == Init /\ [][Next]_vars

\* requests handled by concurrent threads (app.run serves threaded)
SpecConc == InitConc /\ [][Next]_vars

----------------------------------------------------------------------------
(* src/weatherv2.py *)

\* lines 5-9, in declaration order (dict order is insertion order)
cities == <<"Berlin", "Paris", "Rome">>

\* lines 24-25: the [:24] of the slices
Hours == 24

\* shortest hourly series a weather response carries
MinHours == 23

\* an hourly series of n values
Series(base, n) == [k \in 1..n |-> base + k]

\* what requests.get(...).json() may yield for a city
Forecasts ==
    { [temperature_2m |-> Series(tb, tn), relative_humidity_2m |-> Series(50, hn)] :
        tb \in {0, 10}, tn \in MinHours..MaxHours, hn \in MinHours..MaxHours }

\* no slice
TakeAll(s, n) == s

\* s[:n]
Take(s, n) == IF Len(s) <= n THEN s ELSE SubSeq(s, 1, n)

Rule == [kind |-> "rule", city |-> "", what |-> "", values |-> <<>>]
Title(city, what) == [kind |-> "title", city |-> city, what |-> what, values |-> <<>>]
Chart(city, what, values) == [kind |-> "chart", city |-> city, what |-> what, values |-> values]

\* line 22: the forecast of the next city arrives
WeatherFetch(d) ==
    /\ wpc = "fetch"
    /\ wi <= Len(cities)
    /\ wdata' = d
    /\ wfetched' = Append(wfetched, [city |-> cities[wi], data |-> d])
    /\ wpc' = "temperature"
    /\ UNCHANGED <<wi, wout, chatVars>>

\* line 22 raises: the script ends there
WeatherFetchFail ==
    /\ wpc = "fetch"
    /\ wi <= Len(cities)
    /\ wpc' = "crashed"
    /\ UNCHANGED <<wi, wdata, wfetched, wout, chatVars>>

\* lines 24-29
WeatherTemperature ==
    /\ wpc = "temperature"
    /\ wout' = wout \o <<Rule, Title(cities[wi], "Temperature"),
                         Chart(cities[wi], "Temperature", Take(wdata.temperature_2m, Hours))>>
    /\ wpc' = "humidity"
    /\ UNCHANGED <<wi, wdata, wfetched, chatVars>>

\* lines 31-32, and the loop goes on to the next city
WeatherHumidity ==
    /\ wpc = "humidity"
    /\ wout' = wout \o <<Title(cities[wi], "Humidity"),
                         Chart(cities[wi], "Humidity", Take(wdata.relative_humidity_2m, Hours))>>
    /\ wi' = wi + 1
    /\ wpc' = IF wi = Len(cities) THEN "done" ELSE "fetch"
    /\ UNCHANGED <<wdata, wfetched, chatVars>>

WeatherNext ==
    \/ \E d \in Forecasts : WeatherFetch(d)
    \/ WeatherFetchFail
    \/ WeatherTemperature
    \/ WeatherHumidity

SpecWeather == Init /\ [][WeatherNext]_vars

----------------------------------------------------------------------------
(* Properties *)

\* POST /api/chat as a whole: lines 218-229 up to the call of process_message
ChatRequest(c, b) == ChatRaise(c, b) \/ ChatEmpty(c, b) \/ ChatAccept(c, b)

\* the body's message is absent, empty or whitespace only
BlankBody(b) ==
    /\ b.isObj
    /\ ~b.has \/ (b.isStr /\ \A k \in 1..Len(b.message) : b.message[k] \in {" ", "\t", "\n"})

\* the last n elements of s
LastN(s, n) == IF Len(s) <= n THEN s ELSE SubSeq(s, Len(s) - n + 1, Len(s))
Front(s) == SubSeq(s, 1, Len(s) - 1)

FixedErrorText == <<"Sorry, there was an error processing your request.">>

\* C1: a chat request whose message is absent, empty or whitespace only is
\* answered 400 with an error field, and it changes nothing: the history and the
\* global orchestrator are as before and no model or Resource Client call is made.
C1_BlankMessageRejected ==
    [][\A c \in Clients, b \in Bodies :
         (BlankBody(b) /\ ChatRequest(c, b)) =>
            /\ resp'[c].status = 400
            /\ resp'[c].error # ""
            /\ hist' = hist
            /\ chatbot' = chatbot
            /\ pc'[c] = "idle"
            /\ turn'[c].calls = <<>>
            /\ turn'[c].fetches = <<>>]_vars

C1_Witness ==
    \E c \in Clients :
        /\ resp[c].status = 400
        /\ req[c].message = <<" ", "\t">>
        /\ hist[chatbot] # <<>>

\* C2: when the model's first reply is plain text (no JSON), process_message
\* has added exactly the user turn and one assistant turn holding that reply
\* verbatim, returns that reply, made one model call and no Resource Client call.
C2_PlainTextReply ==
    \A c \in Clients :
        (/\ pc[c] = "respond"
         /\ ~turn[c].calls[1].failed
         /\ ~JsonLoads(Strip(turn[c].calls[1].reply)).valid)
        => /\ hist[self[c]] = turn[c].before \o
                 <<User(user_message[c]), Assistant(turn[c].calls[1].reply)>>
           /\ reply[c] = turn[c].calls[1].reply
           /\ Len(turn[c].calls) = 1
           /\ turn[c].fetches = <<>>

C2_Witness ==
    \E c \in Clients :
        /\ pc[c] = "respond"
        /\ ~turn[c].calls[1].failed
        /\ reply[c] = <<"Hello, how can I help?", "\n">>
        /\ turn[c].before # <<>>

\* the synthetic error object of a rooms, sensors or values directive that
\* lacks its UUID
ExpectedMissing(text) ==
    IF text \in {<<J_RoomsNo>>, <<J_RoomsEmp>>}
    THEN [isError |-> TRUE, error |-> <<"School UUID required for fetching rooms">>,
          op |-> "", arg |-> ""]
    ELSE IF text = <<J_SensorsNo>>
    THEN [isError |-> TRUE, error |-> <<"Room UUID required for fetching sensors">>,
          op |-> "", arg |-> ""]
    ELSE [isError |-> TRUE, error |-> <<"Sensor UUID required for fetching values">>,
          op |-> "", arg |-> ""]

LacksUuid(text) == text \in {<<J_RoomsNo>>, <<J_RoomsEmp>>, <<J_SensorsNo>>, <<J_ValuesNo>>}

\* C3: for a rooms, sensors or values directive whose params (a mapping, or no
\* params at all) lack the required UUID, no Resource Client fetch is invoked and
\* the second model call takes place with the synthetic error object as its data.
C3_MissingUuidShortCircuits ==
    \A c \in Clients :
        (/\ pc[c] \in {"format", "append", "respond"}
         /\ LacksUuid(turn[c].calls[1].reply))
        => /\ turn[c].fetches = <<>>
           /\ api_data[c] = ExpectedMissing(turn[c].calls[1].reply)
           /\ pc[c] \in {"append", "respond"} =>
                 /\ Len(turn[c].calls) = 2
                 /\ turn[c].calls[2].phase = "format"
                 /\ turn[c].calls[2].data = ExpectedMissing(turn[c].calls[1].reply)

C3_Witness ==
    \E c \in Clients :
        /\ pc[c] = "respond"
        /\ turn[c].calls[1].reply = <<J_RoomsNo>>
        /\ Len(turn[c].calls) = 2
        /\ turn[c].calls[2].data.error = <<"School UUID required for fetching rooms">>

\* C4: every model request carries as context the most recent four stored turns
\* at most (all of them when there are four or fewer), and the conversation of
\* every 200 response is the whole stored history: 2n turns after n successful
\* chat calls on the orchestrator, user and assistant turns alternating.
C4_WindowOfFourFullHistoryReturned ==
    [][\A c \in Clients :
         /\ Len(turn'[c].calls) = Len(turn[c].calls) + 1 =>
               LET sent == turn'[c].calls[Len(turn'[c].calls)].messages
                   context == Front(sent)
                   stored == hist[self[c]]
               IN /\ Len(context) <= 4
                  /\ Len(context) = (IF Len(stored) <= 4 THEN Len(stored) ELSE 4)
                  /\ \A k \in 1..Len(context) :
                        context[k] = stored[Len(stored) - Len(context) + k]
         /\ (pc[c] = "respond" /\ pc'[c] = "idle") =>
               /\ resp'[c].status = 200
               /\ resp'[c].conversation = hist[chatbot]
               /\ Len(resp'[c].conversation) = 2 * okSince'
               /\ \A k \in 1..Len(resp'[c].conversation) :
                     resp'[c].conversation[k].role =
                        (IF k % 2 = 1 THEN "user" ELSE "assistant")]_vars

C4_Witness ==
    \E c \in Clients :
        /\ pc[c] = "idle"
        /\ resp[c].status = 200
        /\ okSince = 3
        /\ Len(resp[c].conversation) = 6

\* C5: on every path process_message appends exactly one assistant turn after
\* the user turn: the phase-2 text when the formatting phase ran, the phase-1
\* text otherwise; when the formatting phase ran the phase-1 directive is not in
\* what was appended.
C5_OneAssistantTurn ==
    \A c \in Clients :
        /\ pc[c] \in {"intent", "dispatch", "format", "append"} =>
              hist[self[c]] = Append(turn[c].before, User(user_message[c]))
        /\ pc[c] = "respond" =>
              /\ Len(turn[c].calls) \in {1, 2}
              /\ hist[self[c]] = turn[c].before \o
                    <<User(user_message[c]),
                      Assistant(turn[c].calls[Len(turn[c].calls)].reply)>>
              /\ Len(turn[c].calls) = 2 =>
                    \A k \in (Len(turn[c].before) + 1)..Len(hist[self[c]]) :
                        hist[self[c]][k].content # turn[c].calls[1].reply

C5_Witness ==
    \E c \in Clients :
        /\ pc[c] = "respond"
        /\ Len(turn[c].calls) = 2
        /\ ~turn[c].calls[2].failed
        /\ turn[c].before # <<>>

\* C6 as stated: whatever exception is raised during the flow of a user turn,
\* the reply of that turn is the fixed error text, and no step is retried.
C6_AnyExceptionGivesErrorText ==
    \A c \in Clients :
        pc[c] = "respond" =>
            /\ turn[c].raised # {} => reply[c] = FixedErrorText
            /\ Len(turn[c].calls) <= 2

\* C6 amended: the failure of a model call (intent or formatting) makes the
\* fixed error text the reply of the turn; an exception raised elsewhere (JSON
\* parsing, a missing key, the Resource Client) leaves the reply the text of the
\* last model call; one intent call and at most one formatting call per turn.
C6_ModelFailureGivesErrorText ==
    \A c \in Clients :
        pc[c] = "respond" =>
            /\ Len(turn[c].calls) \in {1, 2}
            /\ turn[c].calls[1].phase = "intent"
            /\ Len(turn[c].calls) = 2 => turn[c].calls[2].phase = "format"
            /\ (\E k \in 1..Len(turn[c].calls) : turn[c].calls[k].failed)
                  <=> "ModelError" \in turn[c].raised
            /\ "ModelError" \in turn[c].raised => reply[c] = FixedErrorText
            /\ "ModelError" \notin turn[c].raised =>
                  /\ reply[c] = turn[c].calls[Len(turn[c].calls)].reply
                  /\ reply[c] # FixedErrorText

C6_Witness ==
    \E c \in Clients :
        /\ pc[c] = "respond"
        /\ Len(turn[c].calls) = 2
        /\ turn[c].calls[2].failed
        /\ turn[c].raised = {"HTTPError", "ModelError"}
        /\ reply[c] = FixedErrorText

\* C7: the first successful chat call after a successful clear returns a
\* conversation of exactly two turns, the user turn with the new message and
\* the assistant turn with the reply.
C7_ClearResetsHistory ==
    [][\A c \in Clients :
         (pc[c] = "respond" /\ pc'[c] = "idle" /\ cleared /\ okSince = 0) =>
            /\ resp'[c].status = 200
            /\ resp'[c].conversation =
                  <<User(user_message[c]), Assistant(resp'[c].response)>>]_vars

C7_Witness ==
    \E c \in Clients :
        /\ cleared
        /\ okSince = 1
        /\ nreq = 3
        /\ pc[c] = "idle"
        /\ resp[c].status = 200
        /\ Len(resp[c].conversation) = 2

Charts == SelectSeq(wout, LAMBDA item : item.kind = "chart")

\* C8: with at least 24 hourly temperature and humidity values for each city,
\* the script fetches once per city in declaration order and prints exactly six
\* charts: temperature then humidity for Berlin, Paris, Rome, each the first 24
\* values of its series.
C8_SixChartsInOrder ==
    /\ Len(wfetched) <= 3
    /\ \A k \in 1..Len(wfetched) : wfetched[k].city = <<"Berlin", "Paris", "Rome">>[k]
    /\ (/\ wpc = "done"
        /\ \A k \in 1..Len(wfetched) :
              /\ Len(wfetched[k].data.temperature_2m) >= 24
              /\ Len(wfetched[k].data.relative_humidity_2m) >= 24)
       => /\ Len(wfetched) = 3
          /\ Len(Charts) = 6
          /\ \A k \in 1..3 :
                /\ Charts[2 * k - 1].city = <<"Berlin", "Paris", "Rome">>[k]
                /\ Charts[2 * k - 1].what = "Temperature"
                /\ Charts[2 * k - 1].values =
                      [h \in 1..24 |-> wfetched[k].data.temperature_2m[h]]
                /\ Charts[2 * k].city = <<"Berlin", "Paris", "Rome">>[k]
                /\ Charts[2 * k].what = "Humidity"
                /\ Charts[2 * k].values =
                      [h \in 1..24 |-> wfetched[k].data.relative_humidity_2m[h]]

C8_Witness ==
    /\ wpc = "done"
    /\ \A k \in 1..3 :
          /\ Len(wfetched[k].data.temperature_2m) > 24
          /\ Len(wfetched[k].data.relative_humidity_2m) > 24

\* C9 as stated: the intent request is the current user message preceded by the
\* turns stored before the current user turn, the last four of them at most.
C9_IntentContextIsPriorTurns ==
    \A c \in Clients :
        (pc[c] # "idle" /\ Len(turn[c].calls) >= 1) =>
            turn[c].calls[1].messages =
                Append(LastN(turn[c].before, 4), User(user_message[c]))

\* C10 as stated: every 200 chat response holds a user turn with the request's
\* own message and, after it, an assistant turn with the response text.
C10_ResponseHoldsOwnTurn ==
    \A c \in Clients :
        (pc[c] = "idle" /\ resp[c].status = 200) =>
            \E i, j \in 1..Len(resp[c].conversation) :
                /\ i < j
                /\ resp[c].conversation[i] = User(Strip(GetMessage(req[c])))
                /\ resp[c].conversation[j] = Assistant(resp[c].response)

====
